---- MODULE Spec2Model ----
(***************************************************************************)
(* smoot.MOO (src/smoot/smoot.py): surrogate-assisted multi-objective      *)
(* optimisation.  One MOO instance is modelled; optimize(fun) may be       *)
(* called on it several times.  Real coordinates and objective values are  *)
(* taken on a small integer grid.                                          *)
(***************************************************************************)
EXTENDS Integers, Sequences, FiniteSets, TLC

VARIABLES
    options,    \* self.options: the declared options of the instance
    seed,       \* self.seed: the RandomState created in _initialize
    modeles,    \* self.modeles: reference to a list object, NoRef before the first modelize
    lists,      \* the heap of Python list objects holding surrogates: reference -> list
    probleme,   \* self.probleme: the pymoo Problem built by def_prob
    result,     \* self.result
    ny,         \* self.ny
    ndim,       \* self.ndim
    pc,         \* position of the running optimize call, "idle" outside a call
    fun,        \* argument of the running optimize call
    x_data,     \* local x_data of optimize
    y_data,     \* local y_data of optimize
    k,          \* number of completed loop iterations of optimize
    new_x,      \* local new_x of optimize
    new_y,      \* local new_y of optimize
    calls,      \* number of optimize calls started on the instance
    outcome,    \* how the last optimize call ended: "none", "returned", "raised"
    trace,      \* the steps the current (or last) optimize call has performed
    runs,       \* per finished call: its fun, the points it selected, its result
    budget,     \* the number of optimize calls the caller makes on the instance
    faults,     \* the number of failures the collaborators can still raise
    sel,        \* the locals of the last _find_best_point call of the running optimize
    config,     \* the options the instance was constructed with
    shared      \* x_data and y_data hold the caller's xdoe and ydoe array objects

vars == <<options, seed, modeles, lists, probleme, result, ny, ndim, pc, fun,
          x_data, y_data, k, new_x, new_y, calls, outcome, trace, runs,
          budget, faults, sel, config, shared>>

\* Python's None, by the type of the value it stands in for
NoArray == <<>>
NoValue == [nd |-> 0, v |-> <<>>]
NoInt == 0 - 1
NoRef == 0
NoFun == [name |-> "None", nobj |-> 0, xlimits |-> NoArray, shift |-> 0]
NoProblem == [n_var |-> 0, n_obj |-> 0, xl |-> <<>>, xu |-> <<>>, modelizations |-> NoRef]
NoResult == [by |-> "None", X |-> <<>>, F |-> <<>>]
NoSel == [criter |-> "None", ref |-> <<>>, xmax |-> <<>>, EHVImax |-> 0, s |-> <<>>,
          X |-> <<>>, Y |-> <<>>, var_x |-> 0, var_f |-> 0, dispersion |-> <<>>]

\* ---------------------------------------------------------------- bounds
MaxIter == 2
NStart == 2

\* ------------------------------------------------------- small utilities
Abs(a) == IF a < 0 THEN -a ELSE a
\* f itself, evaluated once instead of at each of its uses
Eager(f) == IF f = f THEN f ELSE f

RECURSIVE SumSeq(_)
SumSeq(s) == IF s = <<>> THEN 0 ELSE Head(s) + SumSeq(Tail(s))

RECURSIVE MaxSeq(_)
MaxSeq(s) == IF Len(s) = 1 THEN s[1]
             ELSE LET m == MaxSeq(Tail(s)) IN IF s[1] >= m THEN s[1] ELSE m

\* floor of the square root
ISqrt(n) == CHOOSE r \in 0..n : r * r <= n /\ n < (r + 1) * (r + 1)

\* ------------------------------------------------------------ the inputs
\* xlimits arrays: one (low, high) row per dimension
XLa == << <<0, 1>>, <<0, 1>> >>
XLb == << <<1, 2>>, <<0, 1>> >>

\* a user-supplied initial design of three points
XDoe == << <<0, 0>>, <<1, 1>>, <<0, 1>> >>

Criteria == {"PI", "EHVI", "GA", "WB2S"}

\* the objective functions handed to optimize: xlimits is the attribute
\* fun.xlimits (NoArray: fun has no such attribute), shift tells them apart
Funs == { [name |-> "f1", nobj |-> 1, xlimits |-> XLa, shift |-> 0],
          [name |-> "fA", nobj |-> 2, xlimits |-> XLa, shift |-> 0],
          [name |-> "fB", nobj |-> 2, xlimits |-> XLb, shift |-> 1],
          [name |-> "f3", nobj |-> 3, xlimits |-> NoArray, shift |-> 0] }

\* f_i(x) of objective i at one point x
FunObj(f, i, x) ==
    LET s == SumSeq(x) + f.shift IN
    CASE i = 1 -> s
      [] i = 2 -> 3 - s
      [] OTHER -> (x[1] - 1) * (x[1] - 1) + x[Len(x)]

\* an ndarray[ne, 1]: one row <<v>> per point
Column(f, i, X) == [j \in 1..Len(X) |-> <<FunObj(f, i, X[j])>>]

\* fun(X): a value with its number of array dimensions nd.  One objective:
\* ndarray[ne, 1] (nd = 2).  Several: a list of ndarray[ne, 1] (nd = 3).
CallFun(f, X) ==
    IF f.nobj = 1 THEN [nd |-> 2, v |-> Column(f, 1, X)]
    ELSE [nd |-> 3, v |-> [i \in 1..f.nobj |-> Column(f, i, X)]]

\* a[i] of a Python value
Item(a, i) == [nd |-> a.nd - 1, v |-> a.v[i]]
\* isinstance(a, float)
IsFloat(a) == a.nd = 0

\* the outputs a user supplies with XDoe
YDoe(n) == CallFun([name |-> "f", nobj |-> n, xlimits |-> NoArray, shift |-> 0], XDoe)

\* ------------------------------------------- the external collaborators
\* Grid points and distances
Dist1(p, r) == SumSeq([d \in 1..Len(p) |-> Abs(p[d] - r[d])])
SumSq(p, r) == SumSeq([d \in 1..Len(p) |-> (p[d] - r[d]) * (p[d] - r[d])])
\* np.linalg.norm(p - r), in fixed point with NormScale units per 1.0
NormScale == 10
Norm(p, r) == ISqrt(NormScale * NormScale * SumSq(p, r))

Coords(bounds) == UNION { bounds[d][1]..bounds[d][2] : d \in 1..Len(bounds) }
InBounds(p, bounds) ==
    /\ Len(p) = Len(bounds)
    /\ \A d \in 1..Len(bounds) : bounds[d][1] <= p[d] /\ p[d] <= bounds[d][2]
Box(bounds) ==
    Eager({ p \in [1..Len(bounds) -> Coords(bounds)] : InBounds(p, bounds) })

\* a fixed total order on grid points
Key(p) == SumSeq([d \in 1..Len(p) |-> (p[d] + 8) * (IF d = 1 THEN 1 ELSE 64)])
RECURSIVE SortByKey(_)
SortByKey(S) ==
    IF S = {} THEN <<>>
    ELSE LET m == CHOOSE p \in S : \A r \in S : Key(p) <= Key(r)
         IN <<m>> \o SortByKey(Eager(S \ {m}))
Rotate(s, n) ==
    IF s = <<>> THEN s
    ELSE [j \in 1..Len(s) |-> s[((j - 1 + n) % Len(s)) + 1]]

\* numpy RandomState(s): the stream of a seed, value number n of it scaled
\* into [low, high]
Entropy == {0, 1}
Uniform(sd, low, high) ==
    low + ((sd.s + (sd.n * (sd.n + 1)) \div 2) % (high - low + 1))

\* smt LHS(xlimits, random_state)(n): n points inside xlimits
LHS(xlimits, rs, n) ==
    Eager([j \in 1..n |-> [d \in 1..Len(xlimits) |->
        xlimits[d][1] + ((j + rs + d) % (xlimits[d][2] - xlimits[d][1] + 1))]])

\* smt KRG: a trained surrogate keeps its training points; it predicts the
\* output of the nearest training point, with an uncertainty that is zero on
\* the training points and grows with the distance to them
KRG(xt, yt) == [xt |-> xt, yt |-> yt]
Nearest(mod, x) ==
    LET d == Eager([j \in 1..Len(mod.xt) |-> Dist1(mod.xt[j], x)])
    IN CHOOSE j \in 1..Len(d) :
           \A i \in 1..Len(d) : d[j] < d[i] \/ (d[j] = d[i] /\ j <= i)
Predict(mod, x) == mod.yt[Nearest(mod, x)][1]
Sigma(mod, x) == Dist1(mod.xt[Nearest(mod, x)], x)

\* training outputs of a list of surrogates as rows: ydata[j][i] = f_i(x_j)
TrainingY(mods) ==
    Eager([j \in 1..Len(mods[1].yt) |-> [i \in 1..Len(mods) |-> mods[i].yt[j][1]]])
TrainingX(mods) == mods[1].xt

\* pymoo minimisation: a dominates b
Dominates(a, b) == (\A i \in 1..Len(a) : a[i] <= b[i]) /\ a # b
WeaklyDominates(a, b) == \A i \in 1..Len(a) : a[i] <= b[i]

\* MyProblem._evaluate: the predictions of the surrogates the problem holds.
\* modelizations is a reference to a list object; heap is the list heap.
Evaluate(prob, heap, x) ==
    Eager([i \in 1..Len(heap[prob.modelizations]) |->
        Predict(heap[prob.modelizations][i], x)])

\* pymoo minimize(problem, NSGA2(seed)): the non-dominated points of the
\* problem's box under its _evaluate, res.X, with their values, res.F; the
\* seed decides the order of the population
NSGA2Solve(prob, heap, sd) ==
    LET bounds == [d \in 1..prob.n_var |-> <<prob.xl[d], prob.xu[d]>>]
        pts    == Box(bounds)
        F      == Eager([p \in pts |-> Evaluate(prob, heap, p)])
        front  == Eager({ p \in pts : \A r \in pts : ~Dominates(F[r], F[p]) })
        X      == Eager(Rotate(SortByKey(front), sd))
    IN [X |-> X, F |-> Eager([j \in 1..Len(X) |-> F[X[j]]])]

\* smoot.criterion.Criterion(kind, models, ref, s)(x).  The optimistic
\* outcome at x is the predicted mean minus the uncertainty; the hypervolume
\* improvement is zero where a training output is at least as good, and
\* else the volume between the optimistic outcome and ref.  s is a fraction
\* <<numerator, denominator>>, and the WB2S value is scaled by its
\* denominator.
Optimistic(mods, x) ==
    Eager([i \in 1..Len(mods) |-> Predict(mods[i], x) - Sigma(mods[i], x)])
RECURSIVE ProdSeq(_)
ProdSeq(s) == IF s = <<>> THEN 1 ELSE Head(s) * ProdSeq(Tail(s))
HVI(mods, ref, x) ==
    LET opt   == Optimistic(mods, x)
        o     == Eager([i \in 1..Len(ref) |-> opt[i]])
        ydata == TrainingY(mods)
    IN IF \E j \in 1..Len(ydata) :
              WeaklyDominates([i \in 1..Len(ref) |-> ydata[j][i]], o)
       THEN 0
       ELSE ProdSeq([i \in 1..Len(ref) |-> ref[i] - o[i]])
CriterionValue(kind, mods, ref, s, x) ==
    CASE kind \in {"PI", "PIMC"} ->
           LET ydata == TrainingY(mods)
               o     == Optimistic(mods, x)
           IN IF \E j \in 1..Len(ydata) : WeaklyDominates(ydata[j], o)
              THEN 0 ELSE 1
      [] kind \in {"EHVI", "EHVIMC"} -> HVI(mods, ref, x)
      [] OTHER ->
           s[1] * HVI(mods, ref, x)
             - s[2] * SumSeq([i \in 1..Len(mods) |-> Predict(mods[i], x)])

\* scipy minimize(f, x0, bounds=bounds).x: a local descent from x0 inside
\* bounds; tab is f on the grid points of bounds
RECURSIVE Descend(_, _)
Descend(tab, x) ==
    LET nb == Eager({ p \in DOMAIN tab : Dist1(p, x) = 1 })
    IN IF nb = {} THEN x
       ELSE LET best == CHOOSE p \in nb : \A r \in nb :
                            \/ tab[p] < tab[r]
                            \/ tab[p] = tab[r] /\ Key(p) <= Key(r)
            IN IF tab[best] < tab[x] THEN Descend(tab, best) ELSE x

\* ------------------------------------------------------------ MOO methods
NObjs == {1, 2, 3}
Event(e, n) == [ev |-> e, n |-> n]

\* the configurations an instance can be constructed with
Configs ==
    { [criterion |-> c, n_iter |-> it, xlimits |-> xl, n_start |-> ns,
       xdoe |-> xd, ydoe |-> yd, random_state |-> rs, q |-> <<1, 2>>] :
        c \in Criteria, it \in 0..MaxIter, xl \in {NoArray, XLa}, ns \in {NStart},
        xd \in {NoArray, XDoe}, yd \in {NoValue} \cup { YDoe(n) : n \in NObjs },
        rs \in {NoInt, 0} }
    \ { o \in [criterion : Criteria, n_iter : 0..MaxIter, xlimits : {NoArray, XLa},
                n_start : {NStart}, xdoe : {NoArray}, ydoe : {YDoe(1), YDoe(3)},
                random_state : {NoInt, 0}, q : {<<1, 2>>}] : TRUE }

\* type(v) == np.ndarray, of an array of points and of an output value
IsArray(v) == v # NoArray
IsOutput(y) == y.nd > 0

\* number of objectives of an output value
NObjOf(y) == IF y.nd = 2 THEN 1 ELSE Len(y.v)

\* the seed a collaborator built with random_state rs uses; e is the entropy
\* it draws when rs is None
SeedOf(rs, e) == IF rs = NoInt THEN e ELSE rs

\* _setup_optimizer: the initial design, and the batches fun was called on
SetupOptimizerSampling(opts, f, e) ==
    LET xt == LHS(opts.xlimits, SeedOf(opts.random_state, e), opts.n_start)
    IN [x |-> xt, y |-> CallFun(f, xt), funcalls |-> <<Len(xt)>>]
SetupOptimizer(opts, f, e) ==
    IF IsArray(opts.xdoe) /\ IsOutput(opts.ydoe)
    THEN [x |-> opts.xdoe, y |-> opts.ydoe, funcalls |-> <<>>]
    ELSE LET xt == LHS(opts.xlimits, SeedOf(opts.random_state, e), opts.n_start)
         IN [x |-> xt, y |-> CallFun(f, xt), funcalls |-> <<Len(xt)>>]

\* optimize line 111: the routing test
IsSingleObjectiveRow(y) == IsFloat(Item(y, 1))
IsSingleObjective(y) == IsFloat(Item(Item(y, 1), 1))

\* optimize lines 102-104: fun has an xlimits attribute
HasXlimitsAlways(f) == TRUE
HasXlimits(f) == f.xlimits # NoArray

\* optimize lines 104-106: without bounds the call prints and returns
NoBoundsOutcomeRaise == "raised"
NoBoundsOutcome == "returned"

\* modelize: the list self.modeles refers to after upTo surrogates were trained
Modeles(xt, yt, upTo) == [i \in 1..upTo |-> KRG(xt, yt[i])]

\* def_prob: modelizations holds the reference self.modeles held when the
\* problem was built
DefProb(n_obj, n_var, xbounds, ref) ==
    [n_var |-> n_var, n_obj |-> n_obj,
     xl |-> [d \in 1..Len(xbounds) |-> xbounds[d][1]],
     xu |-> [d \in 1..Len(xbounds) |-> xbounds[d][2]],
     modelizations |-> ref]

\* optimize lines 136-138: the sample set with one more pair
AppendY(yd, newy) == [i \in 1..Len(yd) |-> yd[i] \o newy[i]]
AppendXLost(xd, newx) == xd
AppendX(xd, newx) == xd \o <<newx>>

\* lines 136-138: np.append builds a new array, so after an append x_data and
\* y_data no longer hold the array objects the caller supplied
AppendSharesInPlace(sh) == sh
AppendShares(sh) == FALSE

\* optimize line 127: the loop goes on
LoopContinuesInclusive(kk, n_iter) == kk <= n_iter
LoopContinues(kk, n_iter) == kk < n_iter

\* _find_best_point lines 256-268 (MOBOpt criterion).  With m candidates,
\* dx[j] and df[j] are the sums of the distances of candidate j to the
\* training inputs and outputs; the code divides both by the same n, centres
\* them and divides by their variances.  Dx[j] = m * (dx[j] - mean(dx)) and
\* Vx = sum of Dx[j]^2 are the centred value and the variance up to positive
\* factors common to all candidates, so var_x = 0 iff Vx = 0 and, where both
\* variances are positive, dispersion[j] is a positive multiple of
\* q * Dx[j] * Vf + (1 - q) * Df[j] * Vx.
FirstMaxIndex(d) ==
    CHOOSE j \in 1..Len(d) :
        /\ \A i \in 1..Len(d) : d[i] <= d[j]
        /\ \A i \in 1..(j - 1) : d[i] < d[j]
Dispersion(res, xdata, ydata, q) ==
    LET m  == Len(res.X)
        dx == Eager([j \in 1..m |->
                  SumSeq([t \in 1..Len(xdata) |-> Norm(xdata[t], res.X[j])])])
        df == Eager([j \in 1..m |->
                  SumSeq([t \in 1..Len(ydata) |-> Norm(ydata[t], res.F[j])])])
        Dx == Eager([j \in 1..m |-> m * dx[j] - SumSeq(dx)])
        Df == Eager([j \in 1..m |-> m * df[j] - SumSeq(df)])
        Vx == SumSeq([j \in 1..m |-> Dx[j] * Dx[j]])
        Vf == SumSeq([j \in 1..m |-> Df[j] * Df[j]])
    IN [var_x |-> Vx, var_f |-> Vf,
        d |-> Eager([j \in 1..m |-> q[1] * Dx[j] * Vf + (q[2] - q[1]) * Df[j] * Vx])]
\* lines 261-266: the list dispersion, which is not computed (<<>>) when a
\* variance is zero
GADispersionUnguarded(res, xdata, ydata, q) == Dispersion(res, xdata, ydata, q).d
GADispersion(res, xdata, ydata, q) ==
    LET disp == Dispersion(res, xdata, ydata, q)
    IN IF disp.var_x = 0 \/ disp.var_f = 0 THEN <<>> ELSE disp.d
\* lines 261-268: the candidate returned
GASelect(res, xdata, ydata, q) ==
    LET disp == Dispersion(res, xdata, ydata, q)
    IN IF disp.var_x = 0 \/ disp.var_f = 0 THEN res.X[1]
       ELSE res.X[FirstMaxIndex(GADispersion(res, xdata, ydata, q))]

\* lines 296-299 and 317-320: n_dim successive draws of self.seed
XStart(sd, bounds, n_dim) ==
    Eager([i \in 1..n_dim |->
        Uniform([s |-> sd.s, n |-> sd.n + i - 1], bounds[i][1], bounds[i][2])])
Advance(sd, n) == [s |-> sd.s, n |-> sd.n + n]

\* lines 281 and 293: the hypervolume reference over n objectives
RefPoint(ydata, n) ==
    Eager([i \in 1..n |-> MaxSeq([j \in 1..Len(ydata) |-> ydata[j][i]]) + 1])

\* self.obj_k = lambda x: -criterion(x), on the grid points of bounds
ObjK(kind, mods, ref, s, bounds) ==
    Eager([p \in Box(bounds) |-> 0 - CriterionValue(kind, mods, ref, s, p)])

\* the bounds handed to the bounded minimizer (lines 297 and 318)
SearchBoundsWide(opts) ==
    [d \in 1..Len(opts.xlimits) |-> <<opts.xlimits[d][1] - 1, opts.xlimits[d][2] + 1>>]
SearchBounds(opts) == opts.xlimits

\* lines 303-313: the WB2S scaling factor, as a fraction
Beta == 100
ScalingUnguarded(mods, xmax, EHVImax) ==
    <<Beta * SumSeq([i \in 1..Len(mods) |-> Abs(Predict(mods[i], xmax))]), EHVImax>>
Scaling(mods, xmax, EHVImax) ==
    IF EHVImax = 0 THEN <<1, 1>>
    ELSE <<Beta * SumSeq([i \in 1..Len(mods) |-> Abs(Predict(mods[i], xmax))]), EHVImax>>

\* _find_best_point: the point returned, self.seed afterwards, the size of
\* the training set of the surrogates that scored the candidates, and the
\* locals of the call (criter, ref, xmax, EHVImax, s, X, Y, var_x, var_f,
\* dispersion).
\* mods is the list self.modeles refers to, e the entropy a solver seeded
\* with None draws.
FindBestPoint(opts, mods, prob, heap, sd, nyv, ndimv, e) ==
    LET criter == opts.criterion
        bounds == SearchBounds(opts)
        ydata  == TrainingY(mods)
        xdata  == TrainingX(mods)
    IN
    IF criter = "GA"
    THEN LET res == NSGA2Solve(prob, heap, SeedOf(opts.random_state, e))
             disp == Dispersion(res, xdata, ydata, opts.q)
         IN [x |-> GASelect(res, xdata, ydata, opts.q), seed |-> sd,
             used |-> Len(heap[prob.modelizations][1].xt),
             locals |-> [NoSel EXCEPT !.criter = criter, !.X = res.X, !.Y = res.F,
                             !.var_x = disp.var_x, !.var_f = disp.var_f,
                             !.dispersion = GADispersion(res, xdata, ydata, opts.q)]]
    ELSE IF criter = "PI"
    THEN LET kind == IF nyv = 2 THEN "PI" ELSE "PIMC"
             obj_k == ObjK(kind, mods, <<>>, <<1, 1>>, bounds)
         IN [x |-> Descend(obj_k, XStart(sd, bounds, ndimv)),
             seed |-> Advance(sd, ndimv), used |-> Len(xdata),
             locals |-> [NoSel EXCEPT !.criter = criter]]
    ELSE IF criter = "EHVI"
    THEN LET kind == IF nyv = 2 THEN "EHVI" ELSE "EHVIMC"
             ref == RefPoint(ydata, nyv)
             obj_k == ObjK(kind, mods, ref, <<1, 1>>, bounds)
         IN [x |-> Descend(obj_k, XStart(sd, bounds, ndimv)),
             seed |-> Advance(sd, ndimv), used |-> Len(xdata),
             locals |-> [NoSel EXCEPT !.criter = criter, !.ref = ref]]
    ELSE LET ref == RefPoint(ydata, 2)
             obj_k_inter == ObjK("EHVI", mods, ref, <<1, 1>>, bounds)
             xmax == Descend(obj_k_inter, XStart(sd, bounds, ndimv))
             EHVImax == CriterionValue("EHVI", mods, ref, <<1, 1>>, xmax)
             s == Scaling(mods, xmax, EHVImax)
             obj_k == ObjK("WB2S", mods, ref, s, bounds)
             sd2 == Advance(sd, ndimv)
         IN [x |-> Descend(obj_k, XStart(sd2, bounds, ndimv)),
             seed |-> Advance(sd2, ndimv), used |-> Len(xdata),
             locals |-> [NoSel EXCEPT !.criter = criter, !.ref = ref, !.xmax = xmax,
                                      !.EHVImax = EHVImax, !.s = s]]

\* smt EGO(...).optimize(fun) as use_ego keeps it: the best point of the
\* design it was given
EgoResult(xd, yd) ==
    LET j == CHOOSE a \in 1..Len(xd) : \A b \in 1..Len(xd) :
                 \/ yd.v[a][1] < yd.v[b][1]
                 \/ yd.v[a][1] = yd.v[b][1] /\ a <= b
    IN [by |-> "EGO", X |-> <<xd[j]>>, F |-> <<yd.v[j]>>]

\* ---------------------------------------------------------------- state
Start ==
    /\ options \in Configs
    /\ \E e \in Entropy :
         /\ options.random_state # NoInt => e = 0
         /\ seed = [s |-> SeedOf(options.random_state, e), n |-> 0]
    /\ modeles = NoRef
    /\ lists = <<>>
    /\ probleme = NoProblem
    /\ result = NoResult
    /\ ny = NoInt
    /\ ndim = NoInt
    /\ pc = "idle"
    /\ fun = NoFun
    /\ x_data = NoArray
    /\ y_data = NoValue
    /\ k = NoInt
    /\ new_x = NoArray
    /\ new_y = NoValue
    /\ calls = 0
    /\ outcome = "none"
    /\ trace = <<>>
    /\ runs = <<>>
    /\ sel = NoSel
    /\ config = options
    /\ shared = FALSE

\* one optimize call, during which a collaborator may fail
Init == Start /\ budget = 1 /\ faults = 1

\* two successive optimize calls on an instance with an integer
\* random_state, with collaborators that work
InitRepeat ==
    /\ Start
    /\ options.random_state # NoInt
    /\ options.n_iter <= 1
    /\ budget = 2
    /\ faults = 0

\* the entropy a collaborator seeded with random_state can draw
Draws == IF options.random_state = NoInt THEN Entropy ELSE {0}

\* optimize ends: by a return or by an exception reaching the caller
Return(out, tr, res) ==
    /\ pc' = "idle"
    /\ outcome' = out
    /\ trace' = tr
    /\ runs' = Append(runs, [fun |-> fun, xs |-> x_data, out |-> out,
                             res |-> IF out = "returned" THEN res ELSE NoResult])
    /\ fun' = NoFun
    /\ x_data' = NoArray
    /\ y_data' = NoValue
    /\ k' = NoInt
    /\ new_x' = NoArray
    /\ new_y' = NoValue
    /\ sel' = NoSel
    /\ shared' = FALSE

\* optimize has no handler around its steps (lines 108-148): an exception
\* of a collaborator leaves optimize
FailurePolicyRetry == "retry"
FailurePolicy == "propagate"

\* a collaborator raises in the current step, a step of kind ev on n points
Fails(ev, n) ==
    /\ faults > 0
    /\ faults' = faults - 1
    /\ IF FailurePolicy = "propagate"
       THEN Return("raised", Append(trace, Event(ev, n)), NoResult)
       ELSE /\ trace' = Append(trace, Event(ev, n))
            /\ UNCHANGED <<pc, outcome, runs, fun, x_data, y_data, k, new_x, new_y,
                           sel, shared>>
    /\ UNCHANGED <<options, modeles, lists, probleme, result, ny, ndim, calls, budget,
                   config>>

\* the functions a caller can pass: with a supplied design, one with as many
\* objectives as the supplied outputs
Callable ==
    IF IsArray(options.xdoe) /\ IsOutput(options.ydoe)
    THEN { f \in Funs : f.nobj = NObjOf(options.ydoe) }
    ELSE Funs

\* optimize lines 101-106: the bounds are resolved, or the call ends
Optimize(f) ==
    /\ pc = "idle"
    /\ calls < budget
    /\ calls' = calls + 1
    /\ IF IsArray(options.xlimits)
       THEN /\ pc' = "setup"
            /\ fun' = f
            /\ trace' = <<>>
            /\ UNCHANGED <<options, outcome, runs>>
       ELSE IF HasXlimits(f)
       THEN /\ options' = [options EXCEPT !.xlimits = f.xlimits]
            /\ pc' = "setup"
            /\ fun' = f
            /\ trace' = <<>>
            /\ UNCHANGED <<outcome, runs>>
       ELSE /\ outcome' = NoBoundsOutcome
            /\ trace' = <<Event("no_bounds", 0)>>
            /\ runs' = Append(runs, [fun |-> f, xs |-> NoArray, out |-> NoBoundsOutcome,
                                     res |-> NoResult])
            /\ UNCHANGED <<options, pc, fun>>
    /\ UNCHANGED <<seed, modeles, lists, probleme, result, ny, ndim,
                   x_data, y_data, k, new_x, new_y, budget, faults, sel, config, shared>>

\* optimize line 108; fun, called on the sampled points, may raise
Setup ==
    /\ pc = "setup"
    /\ \/ /\ \E e \in Draws :
               LET r == SetupOptimizer(options, fun, e)
               IN /\ x_data' = r.x
                  /\ y_data' = r.y
                  /\ trace' = trace \o [j \in 1..Len(r.funcalls) |->
                                            Event("fun", r.funcalls[j])]
                                    \o <<Event("setup", Len(r.x))>>
          /\ shared' = (IsArray(options.xdoe) /\ IsOutput(options.ydoe))
          /\ pc' = "route"
          /\ UNCHANGED <<options, seed, modeles, lists, probleme, result, ny, ndim, fun,
                         k, new_x, new_y, calls, outcome, runs, budget, faults, sel,
                         config>>
       \/ /\ ~(IsArray(options.xdoe) /\ IsOutput(options.ydoe))
          /\ Fails("fun_failed", options.n_start)
          /\ UNCHANGED seed

\* optimize lines 109-118
Route ==
    /\ pc = "route"
    /\ ndim' = Len(options.xlimits)
    /\ IF IsSingleObjective(y_data)
       THEN pc' = "ego" /\ ny' = ny
       ELSE pc' = "model0" /\ ny' = Len(y_data.v)
    /\ UNCHANGED <<options, seed, modeles, lists, probleme, result, fun, x_data,
                   y_data, k, new_x, new_y, calls, outcome, trace, runs, budget, faults,
                   sel, config, shared>>

\* use_ego, and the return of line 117
UseEgo ==
    /\ pc = "ego"
    /\ \/ /\ result' = EgoResult(x_data, y_data)
          /\ Return("returned", Append(trace, Event("ego", Len(x_data))), result')
          /\ UNCHANGED <<options, seed, modeles, lists, probleme, ny, ndim, calls, budget,
                         faults, config>>
       \/ /\ Fails("ego_failed", Len(x_data))
          /\ UNCHANGED seed

\* modelize (lines 121 and 140): self.modeles is bound to a new list, then
\* the surrogates are trained and appended one by one; training the next one
\* may fail after upTo of them, and the exception ends optimize
Modelize ==
    /\ pc \in {"model0", "modelk"}
    /\ \E upTo \in (IF faults > 0 THEN 0..ny ELSE {ny}) :
         /\ faults' = IF upTo = ny THEN faults ELSE faults - 1
         /\ lists' = Append(lists, Modeles(x_data, y_data.v, upTo))
         /\ modeles' = Len(lists) + 1
         /\ IF upTo = ny
            THEN /\ trace' = Append(trace, Event("modelize", Len(x_data)))
                 /\ pc' = IF pc = "model0" THEN "defprob" ELSE "loop"
                 /\ k' = IF pc = "model0" THEN k ELSE k + 1
                 /\ UNCHANGED <<fun, x_data, y_data, new_x, new_y, outcome, runs,
                                sel, shared>>
            ELSE Return("raised", Append(trace, Event("train_failed", Len(x_data))), NoResult)
    /\ UNCHANGED <<options, seed, probleme, result, ny, ndim, calls, budget, config>>

\* optimize lines 122-125
DefineProblem ==
    /\ pc = "defprob"
    /\ probleme' = DefProb(ny, ndim, options.xlimits, modeles)
    /\ k' = 0
    /\ pc' = "loop"
    /\ trace' = Append(trace, Event("def_prob", 0))
    /\ UNCHANGED <<options, seed, modeles, lists, result, ny, ndim, fun, x_data,
                   y_data, new_x, new_y, calls, outcome, runs, budget, faults,
                   sel, config, shared>>

\* optimize line 132
SelectPoint ==
    /\ pc = "loop"
    /\ LoopContinues(k, options.n_iter)
    /\ \/ /\ \E e \in Draws :
               LET r == FindBestPoint(options, lists[modeles], probleme, lists, seed,
                                      ny, ndim, e)
               IN /\ new_x' = r.x
                  /\ seed' = r.seed
                  /\ sel' = r.locals
                  /\ trace' = Append(trace, Event("select", r.used))
          /\ pc' = "eval"
          /\ UNCHANGED <<options, modeles, lists, probleme, result, ny, ndim, fun, x_data,
                         y_data, k, new_y, calls, outcome, runs, budget, faults, config,
                         shared>>
       \/ /\ Fails("select_failed", Len(x_data))
          /\ seed' = IF options.criterion = "GA" THEN seed ELSE Advance(seed, ndim)

\* optimize line 133
Evaluation ==
    /\ pc = "eval"
    /\ \/ /\ new_y' = CallFun(fun, <<new_x>>)
          /\ trace' = Append(trace, Event("fun", 1))
          /\ pc' = "append"
          /\ UNCHANGED <<options, seed, modeles, lists, probleme, result, ny, ndim, fun,
                         x_data, y_data, k, new_x, calls, outcome, runs, budget, faults,
                         sel, config, shared>>
       \/ /\ Fails("fun_failed", 1)
          /\ UNCHANGED seed

\* optimize lines 136-138
AppendPoint ==
    /\ pc = "append"
    /\ y_data' = [nd |-> 3, v |-> AppendY(y_data.v, new_y.v)]
    /\ x_data' = AppendX(x_data, new_x)
    /\ shared' = AppendShares(shared)
    /\ options' = IF shared' THEN [options EXCEPT !.xdoe = x_data', !.ydoe = y_data']
                  ELSE options
    /\ trace' = Append(trace, Event("append", Len(x_data')))
    /\ pc' = "modelk"
    /\ UNCHANGED <<seed, modeles, lists, probleme, result, ny, ndim, fun,
                   k, new_x, new_y, calls, outcome, runs, budget, faults,
                   sel, config>>

\* optimize lines 143-151: the final genetic solve
FinalSolve ==
    /\ pc = "loop"
    /\ ~LoopContinues(k, options.n_iter)
    /\ \/ /\ \E e \in Draws :
               LET res == NSGA2Solve(probleme, lists, SeedOf(options.random_state, e))
               IN /\ result' = [by |-> "NSGA2", X |-> res.X, F |-> res.F]
                  /\ Return("returned",
                            Append(trace, Event("solve",
                                       Len(lists[probleme.modelizations][1].xt))),
                            result')
          /\ UNCHANGED <<options, seed, modeles, lists, probleme, ny, ndim, calls, budget,
                         faults, config>>
       \/ /\ Fails("solve_failed", Len(x_data))
          /\ UNCHANGED seed

Next ==
    \/ \E f \in Callable : Optimize(f)
    \/ Setup
    \/ Route
    \/ UseEgo
    \/ Modelize
    \/ DefineProblem
    \/ SelectPoint
    \/ Evaluation
    \/ AppendPoint
    \/ FinalSolve

Spec == Init /\ [][Next]_vars
SpecRepeat == InitRepeat /\ [][Next]_vars

\* ------------------------------------------------------------ properties
\* the size of the initial design of the instance
N0 ==
    IF IsArray(options.xdoe) /\ IsOutput(options.ydoe)
    THEN Len(options.xdoe) ELSE options.n_start

\* the names of the steps in the trace, and the steps of one name
Steps == [i \in 1..Len(trace) |-> trace[i].ev]
Only(e) == { i \in 1..Len(trace) : trace[i].ev = e }
Before(i, e) == Cardinality({ j \in Only(e) : j < i })

\* the steps a collaborator raised in, and a call in which one did
Failures == {"train_failed", "fun_failed", "select_failed", "solve_failed", "ego_failed"}
Failed == \E i \in 1..Len(trace) : trace[i].ev \in Failures

\* C1: in a multi-objective run the final genetic solve, which produces
\* self.result, evaluates the candidates with the surrogates of the last
\* retraining, those trained on the full sample set of N0 + n_iter points.
C1_FinalSolveUsesLastSurrogates ==
    \A i \in Only("solve") :
        /\ trace[i].n = Len(runs[Len(runs)].xs)
        /\ trace[i].n = N0 + options.n_iter

\* C2: in a multi-objective run the sample set holds N0 + k points after k
\* completed iterations, every objective's output array is as long as the
\* array of design points, and the j-th retraining is given N0 + j - 1 points.
C2_SampleSetSize ==
    /\ pc \in {"model0", "defprob", "loop", "eval", "append"} =>
         /\ Len(x_data) = N0 + (IF k = NoInt THEN 0 ELSE k)
         /\ \A i \in 1..Len(y_data.v) : Len(y_data.v[i]) = Len(x_data)
    /\ pc = "modelk" =>
         /\ Len(x_data) = N0 + k + 1
         /\ \A i \in 1..Len(y_data.v) : Len(y_data.v[i]) = Len(x_data)
    /\ \A i \in Only("modelize") : trace[i].n = N0 + Before(i, "modelize")
    /\ \A i \in Only("append") : trace[i].n = N0 + Before(i, "append") + 1
C2_Witness ==
    /\ pc = "loop"
    /\ k = MaxIter
    /\ IsArray(options.xdoe) /\ IsOutput(options.ydoe)
    /\ Len(x_data) = Len(options.xdoe) + MaxIter
    /\ Len(x_data) # options.n_start + MaxIter

Unresolved ==
    /\ pc = "idle"
    /\ runs # <<>>
    /\ ~IsArray(options.xlimits)
    /\ ~IsArray(runs[Len(runs)].fun.xlimits)

\* C4 as claimed: without xlimits in the configuration and on fun, optimize
\* ends with an error raised to the caller.
C4_NoBoundsRaises == Unresolved => outcome = "raised"

\* C4 as amended: without xlimits in the configuration and on fun, optimize
\* ends by a normal return after reporting the missing bounds, raises
\* nothing and sets no result.
C4_NoBoundsReturns ==
    Unresolved =>
        /\ outcome = "returned"
        /\ trace = <<Event("no_bounds", 0)>>
        /\ runs[Len(runs)].res = NoResult
C4_Witness == Unresolved /\ calls = 1

\* C5: with xdoe and ydoe both supplied the initial sample set is the
\* supplied arrays and fun is not called during setup; otherwise n_start
\* points are sampled and fun is called once, on the whole batch.
C5_InitialDesign ==
    pc = "route" =>
        IF IsArray(options.xdoe) /\ IsOutput(options.ydoe)
        THEN /\ x_data = options.xdoe
             /\ y_data = options.ydoe
             /\ trace = <<Event("setup", Len(options.xdoe))>>
        ELSE /\ Len(x_data) = options.n_start
             /\ trace = <<Event("fun", options.n_start), Event("setup", options.n_start)>>
             /\ y_data = CallFun(fun, x_data)
C5_Witness ==
    /\ pc = "route"
    /\ IsArray(options.xdoe) /\ IsOutput(options.ydoe)
    /\ Len(x_data) # options.n_start
    /\ Only("fun") = {}

\* the current call was given its design by the caller
Supplied == IsArray(options.xdoe) /\ IsOutput(options.ydoe)

\* C6: under every policy the point _find_best_point returns, hence every
\* point fun is evaluated on and every point appended to the sample set,
\* lies componentwise within xlimits, as does the random start of a search.
C6_PointsWithinXlimits ==
    /\ new_x # NoArray => InBounds(new_x, options.xlimits)
    /\ pc \notin {"idle", "setup"} =>
         \A j \in 1..Len(x_data) :
             (j > N0 \/ ~Supplied) => InBounds(x_data[j], options.xlimits)
    /\ (pc = "loop" /\ options.criterion # "GA") =>
         InBounds(XStart(seed, SearchBounds(options), ndim), options.xlimits)
C6_Witness ==
    /\ pc = "modelk"
    /\ k = MaxIter - 1
    /\ x_data[Len(x_data)] = new_x
    /\ InBounds(new_x, options.xlimits)

\* C7: with an integer random_state, two optimize calls with the same fun on
\* the same instance select the same points and produce the same result.
C7_Deterministic ==
    (/\ Len(runs) = 2
     /\ runs[1].fun = runs[2].fun
     /\ runs[1].out = "returned" /\ runs[2].out = "returned") =>
        /\ runs[1].xs = runs[2].xs
        /\ runs[1].res = runs[2].res

\* C8: on every call of _find_best_point the candidates are scored with the
\* surrogates of the most recent retraining, those trained on the whole
\* current sample set: the selection of iteration j uses N0 + j - 1 points.
C8_SelectionUsesCurrentSurrogates ==
    \A i \in Only("select") : trace[i].n = N0 + Before(i, "select")

\* C9: outside a retraining self.modeles holds a complete set of ny
\* surrogates trained on one sample set, also after a training failure.
C9_RetrainAtomic ==
    modeles # NoRef =>
        /\ Len(lists[modeles]) = ny
        /\ \A i \in 1..Len(lists[modeles]) : lists[modeles][i].xt = lists[modeles][1].xt

\* C10: a multi-objective run performs, in this order, the initial design,
\* one retraining, n_iter times (select one point, evaluate fun on that one
\* point, append the pair, retrain on the whole set) and one final solve.
RECURSIVE Repeat(_, _)
Repeat(s, n) == IF n = 0 THEN <<>> ELSE s \o Repeat(s, n - 1)
ExpectedSteps ==
    (IF Supplied THEN <<"setup">> ELSE <<"fun", "setup">>)
        \o <<"modelize", "def_prob">>
        \o Repeat(<<"select", "fun", "append", "modelize">>, options.n_iter)
        \o <<"solve">>
IsPrefix(s, t) == Len(s) <= Len(t) /\ \A i \in 1..Len(s) : s[i] = t[i]
C10_StepOrder ==
    /\ (Only("ego") = {} /\ Only("no_bounds") = {} /\ ~Failed) =>
         IsPrefix(Steps, ExpectedSteps)
    /\ Only("solve") # {} =>
         /\ Len(Steps) = Len(ExpectedSteps)
         /\ pc = "idle" /\ outcome = "returned" /\ result.by = "NSGA2"
         /\ Cardinality(Only("modelize")) = options.n_iter + 1
         /\ Cardinality({ i \in Only("fun") : trace[i].n = 1 /\ Before(i, "setup") = 1 })
              = options.n_iter
    /\ pc = "modelk" =>
         /\ new_y = CallFun(fun, <<new_x>>)
         /\ x_data[Len(x_data)] = new_x
         /\ \A i \in 1..Len(y_data.v) : y_data.v[i][Len(x_data)] = new_y.v[i][1]
    /\ (/\ pc = "idle" /\ runs # <<>> /\ outcome = "returned"
        /\ runs[Len(runs)].fun.nobj > 1 /\ Only("no_bounds") = {}) =>
         Only("solve") # {}
C10_Witness ==
    /\ Only("solve") # {}
    /\ options.n_iter = MaxIter
    /\ Len(Steps) = Len(ExpectedSteps)

\* C11: whenever _find_best_point builds a hypervolume reference point (EHVI,
\* and the EHVI sub-step of WB2S), the reference has one component per
\* objective, and component i is the maximum of objective i over the outputs
\* of the current sample set plus 1, above every observed value.
C11_ReferencePoint ==
    (pc = "eval" /\ sel.ref # <<>>) =>
        /\ Len(sel.ref) = ny
        /\ \A i \in 1..ny :
             /\ sel.ref[i] = MaxSeq([j \in 1..Len(x_data) |-> y_data.v[i][j][1]]) + 1
             /\ \A j \in 1..Len(x_data) : sel.ref[i] > y_data.v[i][j][1]

\* the dispersion values d_l_x and d_l_f of the candidates of the last
\* selection, up to the common factor 1 / n, and zero variance of such values
D_l_x ==
    [j \in 1..Len(sel.X) |->
        SumSeq([t \in 1..Len(x_data) |-> Norm(x_data[t], sel.X[j])])]
D_l_f ==
    [j \in 1..Len(sel.X) |->
        SumSeq([t \in 1..Len(x_data) |->
            Norm([i \in 1..ny |-> y_data.v[i][t][1]], sel.Y[j])])]
ZeroVariance(d) == \A i \in 1..Len(d) : d[i] = d[1]

\* C12: under GA, when the design-space or the objective-space dispersion
\* values of the candidates have zero variance, _find_best_point returns the
\* first candidate, computes no dispersion (divides by no variance), raises
\* nothing, and the loop goes on with that point.
C12_ZeroVarianceFallback ==
    (/\ pc \in {"eval", "append"} /\ sel.criter = "GA"
     /\ (ZeroVariance(D_l_x) \/ ZeroVariance(D_l_f))) =>
        /\ new_x = sel.X[1]
        /\ sel.dispersion = <<>>
        /\ outcome = "none"
        /\ pc = "append" => new_y = CallFun(fun, <<sel.X[1]>>)
C12_Witness ==
    /\ pc = "append" /\ sel.criter = "GA"
    /\ Len(sel.X) > 1
    /\ ZeroVariance(D_l_x) \/ ZeroVariance(D_l_f)
    /\ new_y = CallFun(fun, <<sel.X[1]>>)

\* the surrogates a retraining on the current sample set gives
CurrentSurrogates == Modeles(x_data, y_data.v, ny)

\* C13: under WB2S, when the EHVI value at the point found by the EHVI
\* sub-search is 0 the scaling factor s is exactly 1 and a point is still
\* returned; otherwise s is 100 times the sum over all objectives of the
\* absolute predicted means at that point, divided by that EHVI value, with
\* the predictions of the current surrogates.
C13_ScalingFactor ==
    (pc = "eval" /\ sel.criter = "WB2S") =>
        /\ InBounds(sel.xmax, options.xlimits)
        /\ sel.EHVImax = CriterionValue("EHVI", CurrentSurrogates, sel.ref, <<1, 1>>, sel.xmax)
        /\ sel.EHVImax = 0 => sel.s = <<1, 1>>
        /\ sel.EHVImax # 0 =>
             sel.s = <<100 * SumSeq([i \in 1..ny |->
                           Abs(Predict(CurrentSurrogates[i], sel.xmax))]), sel.EHVImax>>
        /\ InBounds(new_x, options.xlimits)
        /\ trace[Len(trace)].ev = "select"
C13_Witness ==
    /\ pc = "eval" /\ sel.criter = "WB2S"
    /\ sel.EHVImax = 0
    /\ sel.s = <<1, 1>>
    /\ InBounds(new_x, options.xlimits)

\* the fun of the optimize call a step starts
Passed == IF pc' = "idle" THEN runs'[Len(runs')].fun ELSE fun'

\* C14: an optimize call that finds xlimits neither in the configuration nor
\* on fun does no sampling, calls fun not once, trains no surrogate, runs no
\* solver and sets no result; self.modeles, self.result and the rest of the
\* instance are as they were before the call.
C14_NoBoundsFrame ==
    [][(/\ calls' = calls + 1
        /\ ~IsArray(options.xlimits)
        /\ ~IsArray(Passed.xlimits)) =>
          /\ pc' = "idle"
          /\ trace' = <<Event("no_bounds", 0)>>
          /\ runs'[Len(runs')].xs = NoArray /\ runs'[Len(runs')].res = NoResult
          /\ UNCHANGED <<options, seed, modeles, lists, probleme, result, ny, ndim,
                         x_data, y_data, new_x, new_y, k>>]_vars
C14_Witness ==
    /\ Unresolved
    /\ trace = <<Event("no_bounds", 0)>>
    /\ modeles = NoRef /\ lists = <<>> /\ result = NoResult
    /\ x_data = NoArray /\ y_data = NoValue

\* C15: the bounds a run uses are the configured xlimits when the user
\* configured them, and otherwise the xlimits attribute of the fun passed to
\* that call, also when an earlier call on the instance was given another fun.
C15_BoundsPerCall ==
    (pc # "idle" /\ HasXlimits(fun)) =>
        options.xlimits = IF IsArray(config.xlimits) THEN config.xlimits
                          ELSE fun.xlimits

\* the step each entry of the trace is an attempt of, and the steps of a
\* single-objective run
StepOf(ev) ==
    CASE ev = "train_failed" -> "modelize"
      [] ev = "fun_failed" -> "fun"
      [] ev = "select_failed" -> "select"
      [] ev = "solve_failed" -> "solve"
      [] ev = "ego_failed" -> "ego"
      [] OTHER -> ev
Attempts == [i \in 1..Len(trace) |-> StepOf(trace[i].ev)]
EgoSteps == (IF Supplied THEN <<"setup">> ELSE <<"fun", "setup">>) \o <<"ego">>

\* C16: when surrogate training, an evaluation of fun, the acquisition
\* search or a genetic solve fails in a run, the failure is the last thing
\* the run does: optimize ends by raising it, no step is attempted a second
\* time, no later step is executed and the run produces no result.
C16_NoRetry ==
    \A i \in 1..Len(trace) :
        trace[i].ev \in Failures =>
            /\ i = Len(trace)
            /\ pc = "idle" /\ outcome = "raised"
            /\ runs[Len(runs)].out = "raised" /\ runs[Len(runs)].res = NoResult
            /\ result = NoResult
            /\ \/ IsPrefix(Attempts, ExpectedSteps)
               \/ IsPrefix(Attempts, EgoSteps)
C16_Witness ==
    /\ pc = "idle" /\ outcome = "raised"
    /\ trace[Len(trace)].ev = "fun_failed"
    /\ Only("append") # {}
    /\ result = NoResult

\* C17: optimize never writes to the xdoe and ydoe arrays of the caller, so
\* after any number of calls they are as configured, and every run starts
\* from the initial design of N0 points, not from the samples a previous run
\* accumulated.
C17_DesignUntouched ==
    /\ options.xdoe = config.xdoe
    /\ options.ydoe = config.ydoe
    /\ pc = "route" =>
         IF IsArray(config.xdoe) /\ IsOutput(config.ydoe)
         THEN x_data = config.xdoe /\ y_data = config.ydoe
         ELSE Len(x_data) = config.n_start
C17_Witness ==
    /\ pc = "route" /\ calls = 2
    /\ IsArray(config.xdoe) /\ IsOutput(config.ydoe)
    /\ runs[1].out = "returned"
    /\ Len(runs[1].xs) = Len(config.xdoe) + 1
    /\ x_data = config.xdoe

====
